---- MODULE Spec2Model ----
(***************************************************************************)
(* George.py: a genetic algorithm that evolves a population of strings     *)
(* towards a target string.  The model keeps the fields of one Evolution   *)
(* object together with the position of its driver, evolution_rounds.      *)
(*                                                                         *)
(* Representation.  A string is a sequence of one-character strings.       *)
(* A fitness score (the float score / len(target)) is the exact fraction   *)
(* <<score, len(target)>>.  A mutation rate is an integer number of        *)
(* hundredths (mutation_rate = 0.1 is 10).  None is the empty sequence.    *)
(* The list mating_pool is kept run-length encoded: its m-th block         *)
(* <<member, n>> stands for n consecutive copies of member, and            *)
(* PoolList(mating_pool) is the list itself.                               *)
(*                                                                         *)
(* pc is "idle" between calls, "running" inside evolution_rounds and       *)
(* "failed" once an exception has left a call (error names it); rounds, i  *)
(* and mutation_rate are the locals of evolution_rounds.  arg is used only *)
(* where a single method is run on its own: it holds the input of          *)
(* mutation (pc "mutation", then "returned") and the parent pairs drawn by *)
(* reproduction (pc "reproduced").                                         *)
(* A random draw is a nondeterministic choice over its support.            *)
(***************************************************************************)
EXTENDS Integers, Sequences, FiniteSets, TLC

(* ------------------------------ bounds --------------------------------- *)
(* Targets have 1..MaxLen characters, or up to MaxLongLen when the         *)
(* population has at most one individual (it then never draws a pair);     *)
(* populationsize is 0..MaxPop and a population has at most MaxCells       *)
(* characters; a call asks for 0..MaxRounds rounds and no generation       *)
(* beyond MaxGen is entered.                                               *)
MaxLen == 3
MaxLongLen == 8
MaxPop == 4
MaxCells == 8
MaxRounds == 2
MaxGen == 3

Chars == <<"A", "B">>

(* Mutation rates, in hundredths: below 0, 0, 0.1, 1 and above 1.  The     *)
(* calls on a whole object take them from CallRates: at 1 a step can leave *)
(* exactly the populations it can leave at 0.1.                            *)
Rates == {-1, 0, 10, 100, 101}
CallRates == Rates \ {100}

None == <<>>

(* Targets of length n: all "A", and "A"s with a last "B". *)
Targets(n) == {[j \in 1..n |-> IF j <= k THEN Chars[1] ELSE Chars[2]] : k \in {n - 1, n}}

VARIABLES target, populationsize, population, fitness, mating_pool, generation,
          target_acquired, max_fitness, target_population, closest_target,
          pc, rounds, i, mutation_rate, error, arg

vars == <<target, populationsize, population, fitness, mating_pool, generation,
          target_acquired, max_fitness, target_population, closest_target,
          pc, rounds, i, mutation_rate, error, arg>>

Range(s) == {s[j] : j \in 1..Len(s)}

(* ------------------------- generate_random_dna ------------------------- *)
generate_random_dna_any(N, tgt) == [1..N -> Range(Chars)]

(* The strings np.random.choice(dna_elements, N) can produce: every        *)
(* string of length N over the characters present in the target.           *)
generate_random_dna(N, tgt) == [1..N -> Range(tgt)]

(* The result of a step that may raise: the population it leaves in        *)
(* self.population, and the exception ("" when it returns).                *)
Ok(pop) == [population |-> pop, err |-> ""]
Raise(pop, e) == [population |-> pop, err |-> e]

(* --------------------- generate_initial_population --------------------- *)
generate_initial_population(tgt, size) ==
  [1..size -> generate_random_dna(Len(tgt), tgt)]

(* --------------------------- generate_fitness -------------------------- *)
RECURSIVE Score(_, _, _)
Score(member, tgt, k) ==
  IF k > Len(tgt) THEN 0
  ELSE (IF member[k] = tgt[k] THEN 1 ELSE 0) + Score(member, tgt, k + 1)

(* The loop from member m on: the scores appended to self.fitness. *)
RECURSIVE generate_fitness_from(_, _, _)
generate_fitness_from(pop, tgt, m) ==
  IF m > Len(pop) THEN <<>>
  ELSE <<(<<Score(pop[m], tgt, 1), Len(tgt)>>)>> \o generate_fitness_from(pop, tgt, m + 1)

generate_fitness_floor(pop, tgt) ==
  LET fit == generate_fitness_from(pop, tgt, 1)
  IN  [m \in 1..Len(pop) |-> <<(fit[m][1] \div fit[m][2]) * fit[m][2], fit[m][2]>>]

generate_fitness(pop, tgt) == generate_fitness_from(pop, tgt, 1)

(* --------------------------- create_mating_pool ------------------------ *)
Rint100HalfUp(score) == (2 * score[1] * 100 + score[2]) \div (2 * score[2])

(* int(np.rint(score * 100)): the nearest integer, a tie going to the even *)
(* neighbour.                                                              *)
Rint100(score) ==
  LET num == score[1] * 100
      den == score[2]
      q   == num \div den
      r   == num % den
  IN  IF 2 * r < den THEN q
      ELSE IF 2 * r > den THEN q + 1
      ELSE IF q % 2 = 0 THEN q ELSE q + 1

(* The inner loop appends n copies of member: one block of the encoding.   *)
RECURSIVE create_mating_pool_from(_, _, _)
create_mating_pool_from(pop, fit, m) ==
  IF m > Len(pop) THEN <<>>
  ELSE <<(<<pop[m], Rint100(fit[m])>>)>> \o create_mating_pool_from(pop, fit, m + 1)

create_mating_pool(pop, fit) == create_mating_pool_from(pop, fit, 1)

(* The list a run-length encoded pool stands for. *)
RECURSIVE PoolList(_)
PoolList(pool) ==
  IF pool = <<>> THEN <<>>
  ELSE [j \in 1..Head(pool)[2] |-> Head(pool)[1]] \o PoolList(Tail(pool))

(* The members of the list, and whether it is empty. *)
PoolMembers(pool) == {pool[m][1] : m \in {k \in 1..Len(pool) : pool[k][2] > 0}}
PoolIsEmpty(pool) == PoolMembers(pool) = {}

(* ----------------------------- check_progress -------------------------- *)
(* a <= b for two scores *)
ScoreLeq(a, b) == a[1] * b[2] <= b[1] * a[2]

MaxAsMin(fit) == CHOOSE f \in Range(fit) : \A g \in Range(fit) : ScoreLeq(f, g)

Max(fit) == CHOOSE f \in Range(fit) : \A g \in Range(fit) : ScoreLeq(g, f)

IndexLast(fit, f) ==
  CHOOSE m \in 1..Len(fit) : fit[m] = f /\ \A n \in (m + 1)..Len(fit) : fit[n] # f

Index(fit, f) == CHOOSE m \in 1..Len(fit) : fit[m] = f /\ \A n \in 1..(m - 1) : fit[n] # f

(* max_fitness == 1.0 *)
IsOne(f) == f[1] = f[2]

check_progress_resetting(pop, fit, mf, ct, acq, tp) ==
  IF fit = <<>>
  THEN [max_fitness |-> mf, closest_target |-> ct, target_acquired |-> acq,
        target_population |-> tp, err |-> "ValueError: max() arg is an empty sequence"]
  ELSE LET mx == Max(fit)
           closest == pop[Index(fit, mx)]
       IN  [max_fitness |-> mx, closest_target |-> closest,
            target_acquired |-> IsOne(mx),
            target_population |-> IF IsOne(mx) THEN closest ELSE None,
            err |-> ""]

(* The four fields check_progress writes, from their old values acq        *)
(* (target_acquired) and tp (target_population); max([]) raises.           *)
check_progress(pop, fit, mf, ct, acq, tp) ==
  IF fit = <<>>
  THEN [max_fitness |-> mf, closest_target |-> ct, target_acquired |-> acq,
        target_population |-> tp, err |-> "ValueError: max() arg is an empty sequence"]
  ELSE LET mx == Max(fit)
           closest == pop[Index(fit, mx)]
       IN  [max_fitness |-> mx, closest_target |-> closest,
            target_acquired |-> IF IsOne(mx) THEN TRUE ELSE acq,
            target_population |-> IF IsOne(mx) THEN closest ELSE tp,
            err |-> ""]

(* -------------------------------- __init__ ----------------------------- *)
Init ==
  \E n \in 1..MaxLongLen, size \in 0..MaxPop :
    /\ n * size <= MaxCells
    /\ size <= 1 \/ n <= MaxLen
    /\ \E tgt \in Targets(n) : \E pop \in generate_initial_population(tgt, size) :
         \E fit \in {generate_fitness(pop, tgt)} :
         \E cp \in {check_progress(pop, fit, None, None, FALSE, None)} :
             /\ target = tgt
             /\ populationsize = size
             /\ population = pop
             /\ fitness = fit
             /\ mating_pool = create_mating_pool(pop, fit)
             /\ generation = 1
             /\ target_acquired = cp.target_acquired
             /\ max_fitness = cp.max_fitness
             /\ target_population = cp.target_population
             /\ closest_target = cp.closest_target
             /\ error = cp.err
             /\ pc = IF cp.err = "" THEN "idle" ELSE "failed"
             /\ rounds = 0
             /\ i = 0
             /\ mutation_rate = 0
             /\ arg = None

BabyLosing(own, other, tgt) ==
  [k \in 1..Len(tgt) |-> IF own[k] = tgt[k] THEN other[k] ELSE own[k]]

(* ------------------------------ reproduction --------------------------- *)
(* The two babies of a parent pair: each keeps its own parent's character  *)
(* where that matches the target and takes the other parent's elsewhere.   *)
Baby(own, other, tgt) ==
  [k \in 1..Len(tgt) |-> IF own[k] = tgt[k] THEN own[k] ELSE other[k]]

PairsAsSize(size) == size

(* int(self.populationsize / 2) *)
Pairs(size) == size \div 2

EmptyChoice == "ValueError: 'a' cannot be empty unless no samples are taken"

(* What one pass of the loop can draw: the babies of a pair (parentA from  *)
(* the pool, parentB from the pool's members that differ from parentA), or *)
(* the exception np.random.choice raises on an empty list.                 *)
Draws(pool, tgt) ==
  IF PoolIsEmpty(pool) THEN {Raise(<<>>, EmptyChoice)}
  ELSE UNION
    {LET other_parents == SelectSeq(pool, LAMBDA block : block[1] # parentA)
     IN  IF PoolIsEmpty(other_parents) THEN {Raise(<<>>, EmptyChoice)}
         ELSE {Ok(<<Baby(parentA, parentB, tgt), Baby(parentB, parentA, tgt)>>) :
                 parentB \in PoolMembers(other_parents)}
     : parentA \in PoolMembers(pool)}

(* The loop from pair x on; pop holds the babies appended so far. *)
RECURSIVE ReproduceFrom(_, _, _, _)
ReproduceFrom(draws, size, x, pop) ==
  IF x >= Pairs(size) THEN {Ok(pop)}
  ELSE UNION {IF d.err # "" THEN {Raise(pop, d.err)}
              ELSE ReproduceFrom(draws, size, x + 1, pop \o d.population) : d \in draws}

reproduction(pool, tgt, size) == ReproduceFrom(Draws(pool, tgt), size, 0, <<>>)

(* -------------------------------- mutation ----------------------------- *)
(* p = [mutation_rate, 1 - mutation_rate] is a probability vector          *)
ValidRate(rate) == 0 <= rate /\ rate <= 100

MutateCharSwapped(c, tgt, rate) ==
  (IF rate > 0 THEN {<<c>>} ELSE {}) \cup
  (IF rate < 100 THEN generate_random_dna(1, tgt) ELSE {})

(* What one character can become: kept when 'no_mutate' is drawn (possible *)
(* when rate < 1), redrawn from the target when 'mutate' is (rate > 0).    *)
MutateChar(c, tgt, rate) ==
  (IF rate < 100 THEN {<<c>>} ELSE {}) \cup
  (IF rate > 0 THEN generate_random_dna(1, tgt) ELSE {})

(* The inner loop from character k on: the strings dna_out can end as. *)
RECURSIVE MutateMemberFrom(_, _, _, _)
MutateMemberFrom(member, tgt, rate, k) ==
  IF k > Len(member) THEN {<<>>}
  ELSE {c \o rest : c \in MutateChar(member[k], tgt, rate),
                    rest \in MutateMemberFrom(member, tgt, rate, k + 1)}

MutateMemberWide(member, tgt, rate) == MutateMemberFrom(member, Append(tgt, "Z"), rate, 1)

MutateMember(member, tgt, rate) == MutateMemberFrom(member, tgt, rate, 1)

(* The outer loop from member m on: the lists new_population can end as. *)
RECURSIVE MutateFrom(_, _, _, _)
MutateFrom(pop, tgt, rate, m) ==
  IF m > Len(pop) THEN {<<>>}
  ELSE {<<dna_out>> \o rest : dna_out \in MutateMember(pop[m], tgt, rate),
                              rest \in MutateFrom(pop, tgt, rate, m + 1)}

(* np.random.choice raises on the first character when p is not a          *)
(* probability vector; an empty population draws nothing.                  *)
mutation(pop, tgt, rate) ==
  IF pop # <<>> /\ Len(pop[1]) > 0 /\ ~ValidRate(rate)
  THEN {Raise(pop, "ValueError: probabilities are not non-negative")}
  ELSE {Ok(new_population) : new_population \in MutateFrom(pop, tgt, rate, 1)}

(* ------------------------------ new_generation ------------------------- *)
(* self.population after reproduction() and mutation(mutation_rate) *)
ReproduceMutate(rate) ==
  UNION {IF r.err # "" THEN {r} ELSE mutation(r.population, target, rate) :
           r \in reproduction(mating_pool, target, populationsize)}

new_generation_counting_first(m) ==
  /\ population' = m.population
  /\ UNCHANGED <<target, populationsize>>
  /\ IF m.err # ""
     THEN /\ error' = m.err
          /\ generation' = generation + 1
          /\ UNCHANGED <<fitness, mating_pool, target_acquired, max_fitness,
                         target_population, closest_target>>
     ELSE \E fit \in {generate_fitness(m.population, target)} :
          \E cp \in {check_progress(m.population, fit, max_fitness, closest_target,
                                     target_acquired, target_population)} :
              /\ fitness' = fit
              /\ max_fitness' = cp.max_fitness
              /\ closest_target' = cp.closest_target
              /\ target_acquired' = cp.target_acquired
              /\ target_population' = cp.target_population
              /\ error' = cp.err
              /\ generation' = generation + 1
              /\ IF cp.err # ""
                 THEN UNCHANGED mating_pool
                 ELSE mating_pool' = create_mating_pool(m.population, fit)

(* new_generation(rate) taking the draws that give m: the fields it leaves *)
(* and the exception that ends it.  An exception leaves the fields as the  *)
(* statements before it wrote them.                                        *)
new_generation(m) ==
  /\ population' = m.population
  /\ UNCHANGED <<target, populationsize>>
  /\ IF m.err # ""
     THEN /\ error' = m.err
          /\ UNCHANGED <<fitness, mating_pool, generation, target_acquired, max_fitness,
                         target_population, closest_target>>
     ELSE \E fit \in {generate_fitness(m.population, target)} :
          \E cp \in {check_progress(m.population, fit, max_fitness, closest_target,
                                     target_acquired, target_population)} :
              /\ fitness' = fit
              /\ max_fitness' = cp.max_fitness
              /\ closest_target' = cp.closest_target
              /\ target_acquired' = cp.target_acquired
              /\ target_population' = cp.target_population
              /\ error' = cp.err
              /\ IF cp.err # ""
                 THEN UNCHANGED <<mating_pool, generation>>
                 ELSE /\ mating_pool' = create_mating_pool(m.population, fit)
                      /\ generation' = generation + 1

(* ----------------------------- the operations -------------------------- *)
(* A direct call of new_generation(rate) on an idle object. *)
NewGenerationAt(rate) ==
  /\ pc = "idle"
  /\ generation < MaxGen
  /\ \E m \in ReproduceMutate(rate) : new_generation(m)
  /\ pc' = IF error' = "" THEN "idle" ELSE "failed"
  /\ UNCHANGED <<rounds, i, mutation_rate, arg>>

NewGeneration == \E rate \in CallRates : NewGenerationAt(rate)

(* evolution_rounds(rounds, mutation_rate) is called: the loop is entered. *)
EvolutionRounds ==
  /\ pc = "idle"
  /\ \E r \in 0..MaxRounds, rate \in CallRates :
       /\ generation + r <= MaxGen
       /\ rounds' = r
       /\ mutation_rate' = rate
  /\ i' = 0
  /\ pc' = "running"
  /\ UNCHANGED <<target, populationsize, population, fitness, mating_pool, generation,
                 target_acquired, max_fitness, target_population, closest_target, error,
                 arg>>

LoopBodyInclusive ==
  /\ pc = "running"
  /\ i <= rounds
  /\ \E m \in ReproduceMutate(mutation_rate) : new_generation(m)
  /\ IF error' # ""
     THEN pc' = "failed" /\ UNCHANGED <<rounds, i, mutation_rate>>
     ELSE IF target_acquired'
     THEN pc' = "idle" /\ rounds' = 0 /\ i' = 0 /\ mutation_rate' = 0
     ELSE pc' = "running" /\ i' = i + 1 /\ UNCHANGED <<rounds, mutation_rate>>
  /\ UNCHANGED arg

(* One pass of the loop body: new_generation, then the break test.  The    *)
(* call's locals are dropped when it returns, and kept as they were when   *)
(* an exception ends it.                                                   *)
LoopBody ==
  /\ pc = "running"
  /\ i < rounds
  /\ \E m \in ReproduceMutate(mutation_rate) : new_generation(m)
  /\ IF error' # ""
     THEN pc' = "failed" /\ UNCHANGED <<rounds, i, mutation_rate>>
     ELSE IF target_acquired'
     THEN pc' = "idle" /\ rounds' = 0 /\ i' = 0 /\ mutation_rate' = 0
     ELSE pc' = "running" /\ i' = i + 1 /\ UNCHANGED <<rounds, mutation_rate>>
  /\ UNCHANGED arg

(* range(0, rounds) is exhausted: the call returns. *)
LoopExit ==
  /\ pc = "running"
  /\ i >= rounds
  /\ pc' = "idle" /\ rounds' = 0 /\ i' = 0 /\ mutation_rate' = 0
  /\ UNCHANGED <<target, populationsize, population, fitness, mating_pool, generation,
                 target_acquired, max_fitness, target_population, closest_target, error,
                 arg>>

Next == NewGeneration \/ EvolutionRounds \/ LoopBody \/ LoopExit

Spec == Init /\ [][Next]_vars

(* ------------------------- mutation on its own ------------------------- *)
(* mutation(mutation_rate) run once on an object whose population is any   *)
(* list of strings as long as the target, over Chars.                      *)
InitMutation ==
  \E n \in 1..MaxLen, size \in 0..MaxPop :
    /\ n * size <= MaxCells
    /\ target \in Targets(n)
    /\ populationsize = size
    /\ population \in [1..size -> [1..n -> Range(Chars)]]
    /\ arg = population
    /\ mutation_rate \in Rates
    /\ fitness = <<>> /\ mating_pool = <<>> /\ generation = 1
    /\ target_acquired = FALSE /\ max_fitness = None
    /\ target_population = None /\ closest_target = None
    /\ pc = "mutation" /\ rounds = 0 /\ i = 0 /\ error = ""

Mutation ==
  /\ pc = "mutation"
  /\ \E o \in mutation(population, target, mutation_rate) :
       /\ population' = o.population
       /\ error' = o.err
       /\ pc' = IF o.err = "" THEN "returned" ELSE "failed"
  /\ UNCHANGED <<target, populationsize, fitness, mating_pool, generation,
                 target_acquired, max_fitness, target_population, closest_target,
                 rounds, i, mutation_rate, arg>>

NextMutation == Mutation

SpecMutation == InitMutation /\ [][NextMutation]_vars

(* ----------------------- reproduction on its own ----------------------- *)
(* reproduction() run once on a newly constructed object; arg records the  *)
(* pairs <<parentA, parentB>> its passes drew.                             *)

(* The pairs one pass of the loop can draw, or the exception of            *)
(* np.random.choice on an empty list.                                      *)
ChooseParents(pool) ==
  IF PoolIsEmpty(pool) THEN {[parents |-> <<>>, err |-> EmptyChoice]}
  ELSE UNION
    {LET other_parents == SelectSeq(pool, LAMBDA block : block[1] # parentA)
     IN  IF PoolIsEmpty(other_parents) THEN {[parents |-> <<>>, err |-> EmptyChoice]}
         ELSE {[parents |-> <<parentA, parentB>>, err |-> ""] :
                 parentB \in PoolMembers(other_parents)}
     : parentA \in PoolMembers(pool)}

(* The loop from pair x on; pop holds the babies appended so far and       *)
(* drawn the pairs they came from.                                         *)
RECURSIVE ReproduceTraced(_, _, _, _, _, _)
ReproduceTraced(choices, tgt, size, x, pop, drawn) ==
  IF x >= Pairs(size) THEN {[population |-> pop, err |-> "", parents |-> drawn]}
  ELSE UNION
    {IF c.err # "" THEN {[population |-> pop, err |-> c.err, parents |-> drawn]}
     ELSE ReproduceTraced(choices, tgt, size, x + 1,
                          pop \o <<Baby(c.parents[1], c.parents[2], tgt),
                                   Baby(c.parents[2], c.parents[1], tgt)>>,
                          Append(drawn, c.parents))
     : c \in choices}

Reproduction ==
  /\ pc = "idle"
  /\ \E o \in ReproduceTraced(ChooseParents(mating_pool), target, populationsize,
                              0, <<>>, <<>>) :
       /\ [population |-> o.population, err |-> o.err]
            \in reproduction(mating_pool, target, populationsize)
       /\ population' = o.population
       /\ arg' = o.parents
       /\ error' = o.err
       /\ pc' = IF o.err = "" THEN "reproduced" ELSE "failed"
  /\ UNCHANGED <<target, populationsize, fitness, mating_pool, generation,
                 target_acquired, max_fitness, target_population, closest_target,
                 rounds, i, mutation_rate>>

NextReproduction == Reproduction

SpecReproduction == Init /\ [][NextReproduction]_vars

(* ======================================================================= *)
(*                              Properties                                 *)
(* ======================================================================= *)

(* Construction or the last generation step ran to its end. *)
Completed == pc # "failed"

(* A generation step taken with a mutation rate in [0,1]. *)
ValidStep ==
  \/ \E rate \in {r \in CallRates : ValidRate(r)} : NewGenerationAt(rate)
  \/ LoopBody /\ ValidRate(mutation_rate)

EvenSize == populationsize >= 2 /\ populationsize % 2 = 0

(* The number of positions at which member and the target agree. *)
Matches(member) ==
  Cardinality({k \in 1..Len(target) : k <= Len(member) /\ member[k] = target[k]})

(* C1 -- Convergence law: after construction and after every completed     *)
(* generation step, if some individual of the population equals the        *)
(* target, then target_acquired is true and target_population equals the   *)
(* target.                                                                 *)
C1_Convergence ==
  (Completed /\ \E m \in 1..Len(population) : population[m] = target)
    => (target_acquired /\ target_population = target)

(* A step has completed under a valid rate and left the target at an index *)
(* other than the first.                                                   *)
C1_Witness ==
  /\ Completed /\ generation > 1 /\ Len(population) >= 2
  /\ population[1] # target /\ population[2] = target
  /\ target_acquired /\ target_population = target

(* C2 -- Acquisition is terminal: once target_acquired is true, no later   *)
(* step (new_generation or a pass of evolution_rounds; here one that runs  *)
(* to its end, on an object with an even populationsize >= 2 and at a rate *)
(* in [0,1]) changes population, fitness, mating_pool, max_fitness,        *)
(* closest_target, target_population or generation.                        *)
C2_AcquisitionTerminal ==
  [][(target_acquired /\ EvenSize /\ ValidStep /\ error' = "") =>
       UNCHANGED <<population, fitness, mating_pool, max_fitness, closest_target,
                   target_population, generation>>]_vars

(* The mating pool is empty or holds fewer than two distinct strings. *)
DegeneratePool == Cardinality(PoolMembers(mating_pool)) < 2

(* C3 -- Degenerate mating pools must not crash: from every state whose    *)
(* mating pool is empty or has fewer than two distinct values, a           *)
(* generation step (of an object with an even populationsize >= 2 that has *)
(* not acquired the target, at a rate in [0,1]) completes and leaves       *)
(* populationsize individuals.                                             *)
C3_DegeneratePoolHandled ==
  [][(DegeneratePool /\ ~target_acquired /\ EvenSize /\ ValidStep)
       => (error' = "" /\ Len(population') = populationsize)]_vars

(* C4 -- Population shape: for an even populationsize >= 2, the population *)
(* after construction and after every completed generation step has        *)
(* populationsize individuals, each as long as the target.                 *)
C4_PopulationShape ==
  (Completed /\ EvenSize)
    => /\ Len(population) = populationsize
       /\ \A m \in 1..Len(population) : Len(population[m]) = Len(target)

(* Two pairs have been drawn and a step completed; and one pair. *)
C4_Witness ==
  Completed /\ populationsize = 4 /\ generation = 3 /\ Len(population) = 4

(* C5 -- Run driver: a call of evolution_rounds(rounds) (on an object with *)
(* an even populationsize >= 2, at a rate in [0,1]) never runs more than   *)
(* rounds steps, goes on after a step only while target_acquired is false, *)
(* and when it ends with target_acquired false it has run exactly rounds   *)
(* steps.                                                                  *)
C5_RunDriver ==
  [][(EvenSize /\ ValidRate(mutation_rate)) =>
       /\ pc' = "running" => (i' <= rounds' /\ (i' >= 1 => ~target_acquired'))
       /\ (pc = "running" /\ pc' # "running" /\ ~target_acquired') => i = rounds]_vars

(* C5, the loop alone: inside a call the steps run so far never exceed     *)
(* rounds, and a call that has run a step is still running only if that    *)
(* step left target_acquired false.                                        *)
C5_LoopBounded ==
  pc = "running" => (i <= rounds /\ (i >= 1 => ~target_acquired))

(* C6 -- Fitness: the score of every individual is its number of matching  *)
(* positions over N, lies in [0,1], and is 1.0 exactly when the individual *)
(* equals the target.                                                      *)
C6_Fitness ==
  Completed =>
    /\ Len(fitness) = Len(population)
    /\ \A m \in 1..Len(population) :
         /\ fitness[m] = <<Matches(population[m]), Len(target)>>
         /\ 0 <= fitness[m][1] /\ fitness[m][1] <= fitness[m][2]
         /\ (fitness[m][1] = fitness[m][2]) <=> (population[m] = target)

(* After a completed step, scores strictly between 0 and 1 next to a 1.0.  *)
C6_Witness ==
  /\ Completed /\ generation > 1 /\ Len(population) >= 2
  /\ \E m, n \in 1..Len(population) :
       /\ 0 < fitness[m][1] /\ fitness[m][1] < fitness[m][2]
       /\ fitness[n][1] = fitness[n][2]

(* round(a / b * 100), a tie going to the even neighbour, for 0 <= a <= b. *)
RoundHalfEven(a, b) ==
  CHOOSE n \in 0..100 :
    LET d == 100 * a - n * b
        dist == IF d < 0 THEN -d ELSE d
    IN  /\ 2 * dist <= b
        /\ (2 * dist = b) => n % 2 = 0

(* The number of list entries the first m individuals contribute. *)
RECURSIVE Offset(_)
Offset(m) ==
  IF m = 0 THEN 0 ELSE Offset(m - 1) + RoundHalfEven(fitness[m][1], fitness[m][2])

(* C7 -- Mating pool multiplicities: the pool is, in population order, one *)
(* block of round(f * 100) consecutive copies (half to even) of each       *)
(* individual; fitness 0 gives no entry, fitness 1.0 gives 100 entries,    *)
(* and the pool is as long as the sum of the blocks.                       *)
C7_PoolMultiplicities ==
  Completed =>
    LET list == PoolList(mating_pool)
    IN  /\ Len(list) = Offset(Len(population))
        /\ \A m \in 1..Len(population) :
             /\ \A j \in (Offset(m - 1) + 1)..Offset(m) : list[j] = population[m]
             /\ fitness[m][1] = 0 => Offset(m) = Offset(m - 1)
             /\ fitness[m][1] = fitness[m][2] => Offset(m) = Offset(m - 1) + 100

(* A pool built where round(f * 100) is a tie: 5/8 gives 62 copies. *)
C7_Witness ==
  /\ Completed /\ Len(population) = 1
  /\ fitness[1] = <<5, 8>> /\ Len(PoolList(mating_pool)) = 62

(* A pool with blocks of 33, 0 or 67 and 100 copies after a step. *)
C7_WitnessStep ==
  /\ Completed /\ generation > 1 /\ Len(population) = 2
  /\ fitness[1][1] * 3 = fitness[1][2] * 2 /\ fitness[2][1] = fitness[2][2]
  /\ Len(PoolList(mating_pool)) = 167

(* C8 -- Eventual acquisition for target "AB" at mutation rate 0.1: no     *)
(* run of evolution_rounds on an object with an even populationsize >= 2   *)
(* ends in an exception before the target is acquired.                     *)
C8_NeverBlocked ==
  (target = <<"A", "B">> /\ EvenSize /\ mutation_rate = 10 /\ ~target_acquired)
    => pc # "failed"

(* C9 -- Mutation identity: mutation with mutation_rate = 0 returns with   *)
(* the population equal to its input, member for member.                   *)
C9_MutationIdentity ==
  (pc = "returned" /\ mutation_rate = 0) => population = arg

(* mutation(0) has returned on four members, one holding a character the   *)
(* target does not have.                                                   *)
C9_Witness ==
  /\ pc = "returned" /\ mutation_rate = 0 /\ Len(population) = 4
  /\ population = arg
  /\ \E m \in 1..4 : \E k \in 1..Len(population[m]) : population[m][k] \notin Range(target)

(* C10 -- Single-character alphabet: right after a construction that       *)
(* succeeded and before any step, every individual equals the target,      *)
(* max_fitness is 1.0, target_acquired is true and generation is 1.        *)
C10_SingleCharacter ==
  (Completed /\ generation = 1 /\ Cardinality(Range(target)) = 1)
    => /\ \A m \in 1..Len(population) : population[m] = target
       /\ max_fitness = <<Len(target), Len(target)>>
       /\ target_acquired
       /\ target_population = target

C10_Witness ==
  /\ pc = "idle" /\ generation = 1 /\ target = <<"A">> /\ populationsize = 4
  /\ Len(population) = 4 /\ target_acquired

(* C11 -- Zero-round run: a call of evolution_rounds with rounds = 0, from *)
(* its entry to its return, ends in no exception and changes no field of   *)
(* the object: population, fitness, mating_pool, max_fitness,              *)
(* closest_target, target_acquired, target_population and generation stay  *)
(* as they were (generation 1 right after construction).                   *)
C11_ZeroRounds ==
  [][((pc = "idle" /\ pc' = "running" /\ rounds' = 0) \/ (pc = "running" /\ rounds = 0))
       => /\ pc' # "failed"
          /\ UNCHANGED <<target, populationsize, population, fitness, mating_pool,
                         max_fitness, closest_target, target_acquired, target_population,
                         generation, error>>]_vars

(* evolution_rounds(0) is inside its loop statement right after the        *)
(* construction of an object that has not acquired the target.             *)
C11_Witness ==
  /\ pc = "running" /\ rounds = 0 /\ i = 0
  /\ EvenSize /\ generation = 1 /\ ~target_acquired /\ target_population = None

(* C12 -- Population size validation: construction with a populationsize   *)
(* below 2 or odd fails, so no object with such a size exists on which a   *)
(* later operation could run.                                              *)
C12_SizeValidated ==
  ~EvenSize => (pc = "failed" /\ generation = 1)

(* C13 -- Mutation rate validation: a call of evolution_rounds (on an      *)
(* object with an even populationsize >= 2) with a mutation rate outside   *)
(* [0,1] ends in an exception, for every rounds, and leaves population,    *)
(* fitness, mating_pool and generation as they were at the call.           *)
C13_RateValidated ==
  [][(pc = "running" /\ EvenSize /\ ~ValidRate(mutation_rate))
       => /\ pc' = "failed"
          /\ UNCHANGED <<population, fitness, mating_pool, generation>>]_vars

(* C14 -- Crossover never loses a match: for every pair of parents that    *)
(* reproduction drew, each of the two babies matches the target at a       *)
(* position exactly when parentA or parentB does; so the two babies have   *)
(* the same fitness, and it is at least the fitness of each parent.        *)
C14_CrossoverKeepsMatches ==
  pc = "reproduced" =>
    /\ Len(population) = 2 * Len(arg)
    /\ \A x \in 1..Len(arg) :
         LET parentA == arg[x][1]
             parentB == arg[x][2]
             babyA == population[2 * x - 1]
             babyB == population[2 * x]
         IN  /\ \A k \in 1..Len(target) :
                  /\ (babyA[k] = target[k]) <=> (parentA[k] = target[k] \/ parentB[k] = target[k])
                  /\ (babyB[k] = target[k]) <=> (parentA[k] = target[k] \/ parentB[k] = target[k])
             /\ Matches(babyA) = Matches(babyB)
             /\ Matches(babyA) >= Matches(parentA)
             /\ Matches(babyA) >= Matches(parentB)

(* reproduction has drawn two pairs, one of them with parents that match   *)
(* the target at different positions, so that the babies match at more     *)
(* positions than either parent.                                           *)
C14_Witness ==
  /\ pc = "reproduced" /\ Len(arg) = 2 /\ Len(population) = 4
  /\ \E x \in 1..2 :
       /\ Matches(population[2 * x - 1]) > Matches(arg[x][1])
       /\ Matches(population[2 * x - 1]) > Matches(arg[x][2])
       /\ population[2 * x - 1] = target

(* C15 -- Derived state is never stale: after construction and after every *)
(* completed generation step, fitness is the fitness of the current        *)
(* population, member for member; mating_pool is the pool built from the   *)
(* current population and fitness; max_fitness is the greatest score in    *)
(* fitness; and closest_target is the individual at the lowest index whose *)
(* score equals max_fitness.                                               *)
C15_DerivedFresh ==
  Completed =>
    /\ fitness = generate_fitness(population, target)
    /\ mating_pool = create_mating_pool(population, fitness)
    /\ \E m \in 1..Len(population) :
         /\ fitness[m] = max_fitness
         /\ \A n \in 1..Len(population) : ScoreLeq(fitness[n], max_fitness)
         /\ \A n \in 1..(m - 1) : fitness[n] # max_fitness
         /\ closest_target = population[m]

(* A completed step has left two different individuals sharing the         *)
(* greatest score, below 1.0, after an individual with a lower score.      *)
C15_Witness ==
  /\ Completed /\ generation > 1 /\ Len(population) = 4
  /\ fitness[1] # max_fitness
  /\ fitness[2] = max_fitness /\ fitness[3] = max_fitness
  /\ population[2] # population[3]
  /\ closest_target = population[2]
  /\ ~IsOne(max_fitness)

(* A call of new_generation: made directly on an idle object, or by a pass *)
(* of the loop of evolution_rounds.                                        *)
StepTaken ==
  \/ pc = "idle" /\ pc' \in {"idle", "failed"}
  \/ pc = "running" /\ i < rounds

(* C16 -- Generation counter: generation is 1 after construction, grows by *)
(* exactly 1 with every generation step that runs to its end (a step that  *)
(* acquires the target included), and is changed by nothing else; so it is *)
(* always 1 + the number of completed steps.                               *)
C16_GenerationCounter ==
  /\ generation = 1
  /\ [][generation' = generation + (IF StepTaken /\ pc' # "failed" THEN 1 ELSE 0)]_vars

(* Two steps have completed, the target being acquired on the way. *)
C16_Witness ==
  /\ pc = "idle" /\ generation = 3 /\ EvenSize
  /\ target_acquired /\ population[1] # target /\ population[2] = target

(* Every character of member occurs in the target. *)
InAlphabet(member) == \A k \in 1..Len(member) : \E j \in 1..Len(target) : member[k] = target[j]

(* C17 -- Alphabet closure: in every reachable state, every character of   *)
(* every individual in the population and in the mating pool is a          *)
(* character that occurs in the target.                                    *)
C17_AlphabetClosure ==
  /\ \A m \in 1..Len(population) : InAlphabet(population[m])
  /\ \A m \in 1..Len(mating_pool) : InAlphabet(mating_pool[m][1])

(* Two steps, with crossover and mutation at rate 0.1, have completed on   *)
(* four individuals, which differ and between them hold every character of *)
(* a target of two.                                                        *)
C17_Witness ==
  /\ Completed /\ generation = 3 /\ Len(population) = 4
  /\ Cardinality(Range(target)) = 2
  /\ population[1] # population[2]
  /\ UNION {Range(population[m]) : m \in 1..4} = Range(target)
  /\ \A m \in 1..4 : InAlphabet(population[m])
  /\ PoolMembers(mating_pool) # {}

(* target_population is None exactly while target_acquired is false, and   *)
(* is the target otherwise.                                                *)
AcquiredTied ==
  /\ target_acquired <=> target_population # None
  /\ target_acquired => target_population = target

(* C18 -- Acquisition flag: target_acquired never changes from true back   *)
(* to false over any sequence of steps and evolution_rounds calls;         *)
(* target_population is None exactly while target_acquired is false, and   *)
(* whenever target_acquired is true target_population equals the target.   *)
C18_AcquiredMonotone ==
  /\ AcquiredTied
  /\ [][(target_acquired => target_acquired') /\ AcquiredTied']_vars

(* A step has completed after the acquisition and left a population that   *)
(* no longer holds the target.                                             *)
C18_Witness ==
  /\ Completed /\ generation > 1 /\ EvenSize
  /\ target_acquired /\ target_population = target
  /\ ~IsOne(max_fitness)
  /\ \A m \in 1..Len(population) : population[m] # target
====
